---------------------------- MODULE Spec2Model ----------------------------
(***************************************************************************)
(* A model of gronx (src/gronx.go): cron expression normalisation, the due *)
(* check (IsDue / SegmentsDue / IsValid) and the previous-due search       *)
(* (GetPrev / getPrevTime).                                                *)
(*                                                                         *)
(* Expression texts are sequences of one-character strings, so that        *)
(* trimming, case folding, literal replacement and splitting are computed  *)
(* character by character as the Go code does.  Times are records of the   *)
(* calendar fields of a time.Time in a fixed-offset location.              *)
(***************************************************************************)
EXTENDS Integers, Sequences, FiniteSets, TLC

(***************************************************************************)
(* Strings.                                                                *)
(***************************************************************************)
UpperAlpha ==
  <<"A", "B", "C", "D", "E", "F", "G", "H", "I", "J", "K", "L", "M",
    "N", "O", "P", "Q", "R", "S", "T", "U", "V", "W", "X", "Y", "Z">>

LowerAlpha ==
  <<"a", "b", "c", "d", "e", "f", "g", "h", "i", "j", "k", "l", "m",
    "n", "o", "p", "q", "r", "s", "t", "u", "v", "w", "x", "y", "z">>

ToLowerCh(c) ==
  IF \E i \in 1..Len(UpperAlpha) : UpperAlpha[i] = c
  THEN LowerAlpha[CHOOSE i \in 1..Len(UpperAlpha) : UpperAlpha[i] = c]
  ELSE c

ToUpperCh(c) ==
  IF \E i \in 1..Len(LowerAlpha) : LowerAlpha[i] = c
  THEN UpperAlpha[CHOOSE i \in 1..Len(LowerAlpha) : LowerAlpha[i] = c]
  ELSE c

\* strings.ToLower, strings.ToUpper
ToLower(s) == [i \in 1..Len(s) |-> ToLowerCh(s[i])]

ToUpper(s) == [i \in 1..Len(s) |-> ToUpperCh(s[i])]

HasPrefix(s, p) == Len(p) <= Len(s) /\ SubSeq(s, 1, Len(p)) = p

Drop(s, n) == SubSeq(s, n + 1, Len(s))

RECURSIVE TrimLeft(_, _)
TrimLeft(s, cutset) ==
  IF s # <<>> /\ Head(s) \in cutset THEN TrimLeft(Tail(s), cutset) ELSE s

RECURSIVE TrimRight(_, _)
TrimRight(s, cutset) ==
  IF s # <<>> /\ s[Len(s)] \in cutset
  THEN TrimRight(SubSeq(s, 1, Len(s) - 1), cutset)
  ELSE s

\* strings.Trim(s, cutset)
Trim(s, cutset) == TrimRight(TrimLeft(s, cutset), cutset)

\* strings.Split(s, sep) for a one-character separator: "" gives one empty
\* string, and n separators give n + 1 parts.
RECURSIVE Split(_, _)
Split(s, sep) ==
  LET at == {i \in 1..Len(s) : s[i] = sep} IN
  IF at = {} THEN <<s>>
  ELSE LET i == CHOOSE j \in at : \A k \in at : j <= k
       IN  <<SubSeq(s, 1, i - 1)>> \o Split(Drop(s, i), sep)

\* strings.ReplaceAll(s, old, new): non-overlapping matches, left to right.
RECURSIVE ReplaceAll(_, _, _)
ReplaceAll(s, old, new) ==
  IF s = <<>> THEN <<>>
  ELSE IF HasPrefix(s, old) THEN new \o ReplaceAll(Drop(s, Len(old)), old, new)
  ELSE <<Head(s)>> \o ReplaceAll(Tail(s), old, new)

(***************************************************************************)
(* The tables of gronx.go.                                                 *)
(***************************************************************************)
literals ==
  << << <<"S", "U", "N">>, <<"0">> >>,
     << <<"M", "O", "N">>, <<"1">> >>,
     << <<"T", "U", "E">>, <<"2">> >>,
     << <<"W", "E", "D">>, <<"3">> >>,
     << <<"T", "H", "U">>, <<"4">> >>,
     << <<"F", "R", "I">>, <<"5">> >>,
     << <<"S", "A", "T">>, <<"6">> >>,
     << <<"J", "A", "N">>, <<"1">> >>,
     << <<"F", "E", "B">>, <<"2">> >>,
     << <<"M", "A", "R">>, <<"3">> >>,
     << <<"A", "P", "R">>, <<"4">> >>,
     << <<"M", "A", "Y">>, <<"5">> >>,
     << <<"J", "U", "N">>, <<"6">> >>,
     << <<"J", "U", "L">>, <<"7">> >>,
     << <<"A", "U", "G">>, <<"8">> >>,
     << <<"S", "E", "P">>, <<"9">> >>,
     << <<"O", "C", "T">>, <<"1", "0">> >>,
     << <<"N", "O", "V">>, <<"1", "1">> >>,
     << <<"D", "E", "C">>, <<"1", "2">> >> >>

\* literals.Replace(s): at each position the first pair (in argument order)
\* whose old string starts there is replaced; the scan resumes after it.
RECURSIVE literalsReplace(_)
literalsReplace(s) ==
  IF s = <<>> THEN <<>>
  ELSE LET hits == {i \in 1..Len(literals) : HasPrefix(s, literals[i][1])} IN
       IF hits = {} THEN <<Head(s)>> \o literalsReplace(Tail(s))
       ELSE LET i == CHOOSE j \in hits : \A k \in hits : j <= k
            IN  literals[i][2] \o literalsReplace(Drop(s, Len(literals[i][1])))

expressions ==
  << [tag  |-> <<"@", "y", "e", "a", "r", "l", "y">>,
      expr |-> <<"0", " ", "0", " ", "1", " ", "1", " ", "*">>],
     [tag  |-> <<"@", "a", "n", "n", "u", "a", "l", "l", "y">>,
      expr |-> <<"0", " ", "0", " ", "1", " ", "1", " ", "*">>],
     [tag  |-> <<"@", "m", "o", "n", "t", "h", "l", "y">>,
      expr |-> <<"0", " ", "0", " ", "1", " ", "*", " ", "*">>],
     [tag  |-> <<"@", "w", "e", "e", "k", "l", "y">>,
      expr |-> <<"0", " ", "0", " ", "*", " ", "*", " ", "0">>],
     [tag  |-> <<"@", "d", "a", "i", "l", "y">>,
      expr |-> <<"0", " ", "0", " ", "*", " ", "*", " ", "*">>],
     [tag  |-> <<"@", "h", "o", "u", "r", "l", "y">>,
      expr |-> <<"0", " ", "*", " ", "*", " ", "*", " ", "*">>],
     [tag  |-> <<"@", "a", "l", "w", "a", "y", "s">>,
      expr |-> <<"*", " ", "*", " ", "*", " ", "*", " ", "*">>],
     [tag  |-> <<"@", "5", "m", "i", "n", "u", "t", "e", "s">>,
      expr |-> <<"*", "/", "5", " ", "*", " ", "*", " ", "*", " ", "*">>],
     [tag  |-> <<"@", "1", "0", "m", "i", "n", "u", "t", "e", "s">>,
      expr |-> <<"*", "/", "1", "0", " ", "*", " ", "*", " ", "*", " ", "*">>],
     [tag  |-> <<"@", "1", "5", "m", "i", "n", "u", "t", "e", "s">>,
      expr |-> <<"*", "/", "1", "5", " ", "*", " ", "*", " ", "*", " ", "*">>],
     [tag  |-> <<"@", "3", "0", "m", "i", "n", "u", "t", "e", "s">>,
      expr |-> <<"0", ",", "3", "0", " ", "*", " ", "*", " ", "*", " ", "*">>] >>

PosMinute == 0
PosHour == 1
PosDayOfMonth == 2
PosMonth == 3
PosDayOfWeek == 4
PosYear == 5

\* The characters `\s` matches (Go regexp: [\t\n\f\r ]).
SpaceChars == {" ", "\t", "\n", "\f", "\r"}

\* SpaceRe.ReplaceAllString(s, repl): every maximal run of whitespace
\* becomes repl.
RECURSIVE SpaceReReplaceAll(_, _)
SpaceReReplaceAll(s, repl) ==
  IF s = <<>> THEN <<>>
  ELSE IF Head(s) \in SpaceChars
       THEN repl \o SpaceReReplaceAll(TrimLeft(s, SpaceChars), repl)
       ELSE <<Head(s)>> \o SpaceReReplaceAll(Tail(s), repl)

\* expressions[key], ok
HasExpression(key) == \E i \in 1..Len(expressions) : expressions[i].tag = key

ExpressionOf(key) ==
  expressions[CHOOSE i \in 1..Len(expressions) : expressions[i].tag = key].expr

\* normalize with the tag looked up as written.
normalizeCaseSensitive(expr) ==
  LET trimmed  == Trim(expr, {" ", "\t"})
      expanded == IF HasExpression(trimmed) THEN ExpressionOf(trimmed) ELSE trimmed
      spaced   == SpaceReReplaceAll(expanded, <<" ">>)
      replaced == literalsReplace(ToUpper(spaced))
  IN  Split(ReplaceAll(replaced, <<" ", " ">>, <<" ">>), " ")

normalize(expr) ==
  LET trimmed  == Trim(expr, {" ", "\t"})
      expanded == IF HasExpression(ToLower(trimmed))
                  THEN ExpressionOf(ToLower(trimmed))
                  ELSE trimmed
      spaced   == SpaceReReplaceAll(expanded, <<" ">>)
      replaced == literalsReplace(ToUpper(spaced))
  IN  Split(ReplaceAll(replaced, <<" ", " ">>, <<" ">>), " ")

NoErr == "nil"
ErrSegments == "expr should contain 5-6 segments separated by space"
ErrNotFound == "could not find previous due for cron expression"

\* Segments without the lower limit.
SegmentsAtMostSix(expr) ==
  LET segs == normalize(expr) IN
  IF Len(segs) > 6
  THEN [segs |-> <<>>, err |-> ErrSegments]
  ELSE [segs |-> segs, err |-> NoErr]

Segments(expr) ==
  LET segs == normalize(expr) IN
  IF Len(segs) < 5 \/ Len(segs) > 6
  THEN [segs |-> <<>>, err |-> ErrSegments]
  ELSE [segs |-> segs, err |-> NoErr]

(***************************************************************************)
(* time.Time: the calendar fields of an instant in a fixed-offset          *)
(* location.  Go normalises out-of-range arguments of time.Date; gronx.go  *)
(* only passes it fields read from a valid time, so Date builds the record *)
(* directly.                                                               *)
(***************************************************************************)
NanosPerSecond == 1000000000

Date(year, month, day, hour, min, sec, nsec, loc) ==
  [year |-> year, month |-> month, day |-> day, hour |-> hour,
   min |-> min, sec |-> sec, nsec |-> nsec, loc |-> loc]

IsLeap(y) == (y % 4 = 0 /\ y % 100 # 0) \/ y % 400 = 0

DaysIn(y, m) ==
  IF m = 2 THEN (IF IsLeap(y) THEN 29 ELSE 28)
  ELSE IF m \in {4, 6, 9, 11} THEN 30 ELSE 31

RECURSIVE DaysBeforeMonth(_, _)
DaysBeforeMonth(y, m) ==
  IF m = 1 THEN 0 ELSE DaysBeforeMonth(y, m - 1) + DaysIn(y, m - 1)

\* Days from 0001-01-01 (day 1) in the proleptic Gregorian calendar.
DayNumber(y, m, d) ==
  365 * (y - 1) + ((y - 1) \div 4) - ((y - 1) \div 100) + ((y - 1) \div 400)
    + DaysBeforeMonth(y, m) + d

\* time.Time.Weekday(): Sunday = 0 ... Saturday = 6 (0001-01-01 is a Monday).
Weekday(y, m, d) == DayNumber(y, m, d) % 7

\* t.Add(-time.Nanosecond)
AddNegNanosecond(t) ==
  IF t.nsec > 0 THEN [t EXCEPT !.nsec = t.nsec - 1]
  ELSE IF t.sec > 0 THEN [t EXCEPT !.sec = t.sec - 1, !.nsec = NanosPerSecond - 1]
  ELSE IF t.min > 0
       THEN [t EXCEPT !.min = t.min - 1, !.sec = 59, !.nsec = NanosPerSecond - 1]
  ELSE IF t.hour > 0
       THEN [t EXCEPT !.hour = t.hour - 1, !.min = 59, !.sec = 59,
                      !.nsec = NanosPerSecond - 1]
  ELSE IF t.day > 1
       THEN [t EXCEPT !.day = t.day - 1, !.hour = 23, !.min = 59, !.sec = 59,
                      !.nsec = NanosPerSecond - 1]
  ELSE IF t.month > 1
       THEN [t EXCEPT !.month = t.month - 1,
                      !.day = DaysIn(t.year, t.month - 1),
                      !.hour = 23, !.min = 59, !.sec = 59,
                      !.nsec = NanosPerSecond - 1]
  ELSE [t EXCEPT !.year = t.year - 1, !.month = 12, !.day = 31,
                 !.hour = 23, !.min = 59, !.sec = 59,
                 !.nsec = NanosPerSecond - 1]

\* a.Before(b) / a.Equal(b) || a.Before(b), for two times of one location.
Before(a, b) ==
  LET ka == <<a.year, a.month, a.day, a.hour, a.min, a.sec, a.nsec>>
      kb == <<b.year, b.month, b.day, b.hour, b.min, b.sec, b.nsec>>
  IN  \E i \in 1..7 : ka[i] < kb[i] /\ \A j \in 1..(i - 1) : ka[j] = kb[j]

NotAfter(a, b) == ~Before(b, a)

\* The switch of getPrevTime without the case of PosDayOfWeek.
getPrevTimePanicsOnDayOfWeek(pos) ==
  pos \notin {PosYear, PosMonth, PosDayOfMonth, PosHour, PosMinute}

\* The default case of getPrevTime's switch: panic("Unknown segment
\* position").
getPrevTimePanics(pos) ==
  pos \notin {PosYear, PosMonth, PosDayOfMonth, PosDayOfWeek, PosHour, PosMinute}

\* getPrevTime whose minute regression stays in the minute.
getPrevTimeSameMinute(t, pos) ==
  LET res ==
        CASE pos = PosYear ->
               AddNegNanosecond(Date(t.year, 1, 1, 0, 0, 0, 0, t.loc))
          [] pos = PosMonth ->
               AddNegNanosecond(Date(t.year, t.month, 1, 0, 0, 0, 0, t.loc))
          [] pos = PosDayOfMonth ->
               AddNegNanosecond(Date(t.year, t.month, t.day, 0, 0, 0, 0, t.loc))
          [] pos = PosDayOfWeek ->
               AddNegNanosecond(Date(t.year, t.month, t.day, 0, 0, 0, 0, t.loc))
          [] pos = PosHour ->
               AddNegNanosecond(Date(t.year, t.month, t.day, t.hour, 0, 0, 0, t.loc))
          [] pos = PosMinute ->
               Date(t.year, t.month, t.day, t.hour, t.min, 0, 0, t.loc)
  IN  [time |-> res, yearChanged |-> res.year # t.year]

\* getPrevTime that never reports a change of year.
getPrevTimeYearKept(t, pos) ==
  LET res ==
        CASE pos = PosYear ->
               AddNegNanosecond(Date(t.year, 1, 1, 0, 0, 0, 0, t.loc))
          [] pos = PosMonth ->
               AddNegNanosecond(Date(t.year, t.month, 1, 0, 0, 0, 0, t.loc))
          [] pos = PosDayOfMonth ->
               AddNegNanosecond(Date(t.year, t.month, t.day, 0, 0, 0, 0, t.loc))
          [] pos = PosDayOfWeek ->
               AddNegNanosecond(Date(t.year, t.month, t.day, 0, 0, 0, 0, t.loc))
          [] pos = PosHour ->
               AddNegNanosecond(Date(t.year, t.month, t.day, t.hour, 0, 0, 0, t.loc))
          [] pos = PosMinute ->
               AddNegNanosecond(Date(t.year, t.month, t.day, t.hour, t.min, 0, 0, t.loc))
  IN  [time |-> res, yearChanged |-> FALSE]

\* getPrevTime whose day-of-month regression leaves the month.
getPrevTimeDayAsMonth(t, pos) ==
  LET res ==
        CASE pos = PosYear ->
               AddNegNanosecond(Date(t.year, 1, 1, 0, 0, 0, 0, t.loc))
          [] pos = PosMonth ->
               AddNegNanosecond(Date(t.year, t.month, 1, 0, 0, 0, 0, t.loc))
          [] pos = PosDayOfMonth ->
               AddNegNanosecond(Date(t.year, t.month, 1, 0, 0, 0, 0, t.loc))
          [] pos = PosDayOfWeek ->
               AddNegNanosecond(Date(t.year, t.month, t.day, 0, 0, 0, 0, t.loc))
          [] pos = PosHour ->
               AddNegNanosecond(Date(t.year, t.month, t.day, t.hour, 0, 0, 0, t.loc))
          [] pos = PosMinute ->
               AddNegNanosecond(Date(t.year, t.month, t.day, t.hour, t.min, 0, 0, t.loc))
  IN  [time |-> res, yearChanged |-> res.year # t.year]

getPrevTime(t, pos) ==
  LET res ==
        CASE pos = PosYear ->
               AddNegNanosecond(Date(t.year, 1, 1, 0, 0, 0, 0, t.loc))
          [] pos = PosMonth ->
               AddNegNanosecond(Date(t.year, t.month, 1, 0, 0, 0, 0, t.loc))
          [] pos = PosDayOfMonth ->
               AddNegNanosecond(Date(t.year, t.month, t.day, 0, 0, 0, 0, t.loc))
          [] pos = PosDayOfWeek ->
               AddNegNanosecond(Date(t.year, t.month, t.day, 0, 0, 0, 0, t.loc))
          [] pos = PosHour ->
               AddNegNanosecond(Date(t.year, t.month, t.day, t.hour, 0, 0, 0, t.loc))
          [] pos = PosMinute ->
               AddNegNanosecond(Date(t.year, t.month, t.day, t.hour, t.min, 0, 0, t.loc))
  IN  [time |-> res, yearChanged |-> res.year # t.year]

(***************************************************************************)
(* The segment matcher (Checker.CheckDue of the SegmentChecker).  Its code *)
(* is not part of gronx.go; it is modelled from section 4.3 of the         *)
(* specification: a comma list is satisfied by any of its sub-expressions, *)
(* and a malformed or out-of-domain sub-expression is an error.            *)
(***************************************************************************)
ErrMalformed == "malformed sub-expression"
ErrOutOfDomain == "value out of the field's domain"

Digits == <<"0", "1", "2", "3", "4", "5", "6", "7", "8", "9">>

DigitValue(c) == (CHOOSE i \in 1..10 : Digits[i] = c) - 1

IsInt(s) ==
  /\ s # <<>>
  /\ \A i \in 1..Len(s) : \E d \in 1..10 : Digits[d] = s[i]

RECURSIVE ParseInt(_)
ParseInt(s) ==
  IF s = <<>> THEN 0
  ELSE 10 * ParseInt(SubSeq(s, 1, Len(s) - 1)) + DigitValue(s[Len(s)])

\* The reference time's value at a field position.
valueByPos(t, pos) ==
  CASE pos = PosMinute -> t.min
    [] pos = PosHour -> t.hour
    [] pos = PosDayOfMonth -> t.day
    [] pos = PosMonth -> t.month
    [] pos = PosDayOfWeek -> Weekday(t.year, t.month, t.day)
    [] pos = PosYear -> t.year

\* The calendar domain of a field: Year is any positive integer.
InDomain(n, pos) ==
  CASE pos = PosMinute -> n \in 0..59
    [] pos = PosHour -> n \in 0..23
    [] pos = PosDayOfMonth -> n \in 1..31
    [] pos = PosMonth -> n \in 1..12
    [] pos = PosDayOfWeek -> n \in 0..6
    [] pos = PosYear -> n >= 1

DomainMin(pos) == IF pos \in {PosDayOfMonth, PosMonth, PosYear} THEN 1 ELSE 0

DomainMax(pos, t) ==
  CASE pos = PosMinute -> 59
    [] pos = PosHour -> 23
    [] pos = PosDayOfMonth -> 31
    [] pos = PosMonth -> 12
    [] pos = PosDayOfWeek -> 6
    [] pos = PosYear -> t.year

Verdict(due, err) == [due |-> due, err |-> err]

\* a-b: the value lies in the inclusive interval.
inRange(val, offset, pos) ==
  LET parts == Split(offset, "-") IN
  IF Len(parts) # 2 \/ ~IsInt(parts[1]) \/ ~IsInt(parts[2])
  THEN Verdict(FALSE, ErrMalformed)
  ELSE LET a == ParseInt(parts[1])
           b == ParseInt(parts[2])
       IN  IF ~InDomain(a, pos) \/ ~InDomain(b, pos)
           THEN Verdict(FALSE, ErrOutOfDomain)
           ELSE Verdict(a <= val /\ val <= b, NoErr)

\* a-b/c or */c: the value lies in [start, end] and is a multiple of c
\* away from start.
inStep(val, offset, pos, t) ==
  LET parts == Split(offset, "/") IN
  IF Len(parts) # 2 \/ ~IsInt(parts[2]) THEN Verdict(FALSE, ErrMalformed)
  ELSE LET c == ParseInt(parts[2])
           bounds == Split(parts[1], "-")
       IN  IF c = 0 THEN Verdict(FALSE, ErrMalformed)
           ELSE IF parts[1] = <<"*">>
           THEN Verdict(/\ DomainMin(pos) <= val
                        /\ val <= DomainMax(pos, t)
                        /\ (val - DomainMin(pos)) % c = 0, NoErr)
           ELSE IF Len(bounds) # 2 \/ ~IsInt(bounds[1]) \/ ~IsInt(bounds[2])
           THEN Verdict(FALSE, ErrMalformed)
           ELSE LET a == ParseInt(bounds[1])
                    b == ParseInt(bounds[2])
                IN  IF ~InDomain(a, pos) \/ ~InDomain(b, pos)
                    THEN Verdict(FALSE, ErrOutOfDomain)
                    ELSE Verdict(a <= val /\ val <= b /\ (val - a) % c = 0, NoErr)

\* L and NW of the day-of-month field.
isValidMonthDay(offset, t) ==
  LET last == DaysIn(t.year, t.month)
      n    == SubSeq(offset, 1, Len(offset) - 1)
  IN  IF offset = <<"L">> THEN Verdict(t.day = last, NoErr)
      ELSE IF offset[Len(offset)] # "W" \/ ~IsInt(n)
      THEN Verdict(FALSE, ErrMalformed)
      ELSE IF ~InDomain(ParseInt(n), PosDayOfMonth)
      THEN Verdict(FALSE, ErrOutOfDomain)
      ELSE LET day == ParseInt(n)
               wd  == Weekday(t.year, t.month, day)
               near == IF wd = 6 THEN (IF day > 1 THEN day - 1 ELSE day + 2)
                       ELSE IF wd = 0 THEN (IF day < last THEN day + 1 ELSE day - 2)
                       ELSE day
           IN  Verdict(day <= last /\ t.day = near, NoErr)

\* NL and N#M of the day-of-week field.
isValidWeekDay(offset, t) ==
  LET last == DaysIn(t.year, t.month)
      wd   == Weekday(t.year, t.month, t.day)
      n    == SubSeq(offset, 1, Len(offset) - 1)
      nth  == Split(offset, "#")
  IN  IF offset[Len(offset)] = "L"
      THEN IF ~IsInt(n) THEN Verdict(FALSE, ErrMalformed)
           ELSE IF ~InDomain(ParseInt(n), PosDayOfWeek)
           THEN Verdict(FALSE, ErrOutOfDomain)
           ELSE Verdict(wd = ParseInt(n) /\ t.day > last - 7, NoErr)
      ELSE IF Len(nth) # 2 \/ ~IsInt(nth[1]) \/ ~IsInt(nth[2])
      THEN Verdict(FALSE, ErrMalformed)
      ELSE IF ~InDomain(ParseInt(nth[1]), PosDayOfWeek)
              \/ ParseInt(nth[2]) \notin 1..5
      THEN Verdict(FALSE, ErrOutOfDomain)
      ELSE Verdict(wd = ParseInt(nth[1])
                   /\ ((t.day - 1) \div 7) + 1 = ParseInt(nth[2]), NoErr)

Contains(s, chars) == \E i \in 1..Len(s) : s[i] \in chars

\* One sub-expression of a field.
isOffsetDue(offset, pos, t) ==
  LET val == valueByPos(t, pos) IN
  IF offset = <<"*">> \/ offset = <<"?">> THEN Verdict(TRUE, NoErr)
  ELSE IF offset = <<>> THEN Verdict(FALSE, ErrMalformed)
  ELSE IF Contains(offset, {"L", "W", "#"})
  THEN IF pos = PosDayOfMonth /\ ~Contains(offset, {"#"})
       THEN isValidMonthDay(offset, t)
       ELSE IF pos = PosDayOfWeek /\ ~Contains(offset, {"W"})
       THEN isValidWeekDay(offset, t)
       ELSE Verdict(FALSE, ErrMalformed)
  ELSE IF Contains(offset, {"/"}) THEN inStep(val, offset, pos, t)
  ELSE IF Contains(offset, {"-"}) THEN inRange(val, offset, pos)
  ELSE IF ~IsInt(offset) THEN Verdict(FALSE, ErrMalformed)
  ELSE IF ~InDomain(ParseInt(offset), pos) THEN Verdict(FALSE, ErrOutOfDomain)
  ELSE Verdict(ParseInt(offset) = val, NoErr)

\* The sub-expressions in order: the first error aborts the field, the
\* first match satisfies it.
RECURSIVE anyOffsetDue(_, _, _)
anyOffsetDue(offsets, pos, t) ==
  IF offsets = <<>> THEN Verdict(FALSE, NoErr)
  ELSE LET r == isOffsetDue(Head(offsets), pos, t) IN
       IF r.err # NoErr THEN Verdict(FALSE, r.err)
       ELSE IF r.due THEN r
       ELSE anyOffsetDue(Tail(offsets), pos, t)

\* SegmentChecker.CheckDue(segment, pos) at reference time t.
SegmentCheckDue(segment, pos, t) == anyOffsetDue(Split(segment, ","), pos, t)

(***************************************************************************)
(* The inputs of the model.                                                *)
(***************************************************************************)
\* Well-formed, satisfiable:
\*   "* * * * *"
\*   "0 0 1 1 *"
\*   "*/5 * * * *"
\*   "5,10 * * * *"
\*   "10-15/2 * * * *"
\*   "0 10 ? apr mon 2024"
\*   "0 0 L * *"
\*   "59 23 31 dec ?"
\*   "0 12 * * * 2023"
\*   "15 10 15 3 5 2024"
\*   "59 23 31 12 * 1924"  (the last minute of a year 100 years before 2024)
\*   "59 23 31 12 * 1925"
WellFormedExprs ==
  { <<"*", " ", "*", " ", "*", " ", "*", " ", "*">>,
    <<"0", " ", "0", " ", "1", " ", "1", " ", "*">>,
    <<"*", "/", "5", " ", "*", " ", "*", " ", "*", " ", "*">>,
    <<"5", ",", "1", "0", " ", "*", " ", "*", " ", "*", " ", "*">>,
    <<"1", "0", "-", "1", "5", "/", "2", " ", "*", " ", "*", " ", "*", " ", "*">>,
    <<"0", " ", "1", "0", " ", "?", " ", "a", "p", "r", " ", "m", "o", "n", " ", "2", "0", "2", "4">>,
    <<"0", " ", "0", " ", "L", " ", "*", " ", "*">>,
    <<"5", "9", " ", "2", "3", " ", "3", "1", " ", "d", "e", "c", " ", "?">>,
    <<"0", " ", "1", "2", " ", "*", " ", "*", " ", "*", " ", "2", "0", "2", "3">>,
    <<"1", "5", " ", "1", "0", " ", "1", "5", " ", "3", " ", "5", " ", "2", "0", "2", "4">>,
    <<"5", "9", " ", "2", "3", " ", "3", "1", " ", "1", "2", " ", "*", " ", "1", "9", "2", "4">>,
    <<"5", "9", " ", "2", "3", " ", "3", "1", " ", "1", "2", " ", "*", " ", "1", "9", "2", "5">> }

\* Well-formed, satisfied by no calendar instant:
\*   "* * 30 2 *"
\*   "0 0 31 4,6 *"
UnsatisfiableExprs ==
  { <<"*", " ", "*", " ", "3", "0", " ", "2", " ", "*">>,
    <<"0", " ", "0", " ", "3", "1", " ", "4", ",", "6", " ", "*">> }

\* A malformed or out-of-domain field:
\*   "5 99 * * *"
\*   "30 29 2 2 *"
\*   "* * * 13 *"
\*   "x * * * *"
\*   "0 0 * * 1#6"
\*   "61 0 * * * 1900"
BadFieldExprs ==
  { <<"5", " ", "9", "9", " ", "*", " ", "*", " ", "*">>,
    <<"3", "0", " ", "2", "9", " ", "2", " ", "2", " ", "*">>,
    <<"*", " ", "*", " ", "*", " ", "1", "3", " ", "*">>,
    <<"x", " ", "*", " ", "*", " ", "*", " ", "*">>,
    <<"0", " ", "0", " ", "*", " ", "*", " ", "1", "#", "6">>,
    <<"6", "1", " ", "0", " ", "*", " ", "*", " ", "*", " ", "1", "9", "0", "0">> }

\* A wrong number of fields:
\*   "* * * *"
\*   "* * * * * * *"
\*   ""
\*   "@nosuch"
\*   "0 0 1 1 * 2022 *"
BadCountExprs ==
  { <<"*", " ", "*", " ", "*", " ", "*">>,
    <<"*", " ", "*", " ", "*", " ", "*", " ", "*", " ", "*", " ", "*">>,
    <<>>,
    <<"@", "n", "o", "s", "u", "c", "h">>,
    <<"0", " ", "0", " ", "1", " ", "1", " ", "*", " ", "2", "0", "2", "2", " ", "*">> }

\* Whitespace layouts:
\*   " * * * * *\t"
\*   "0\t0  1 1 *"
\*   "\n* * * * *"
\*   "@hourly\n"
\*   "\t@daily "
LayoutExprs ==
  { <<" ", "*", " ", "*", " ", "*", " ", "*", " ", "*", "\t">>,
    <<"0", "\t", "0", " ", " ", "1", " ", "1", " ", "*">>,
    <<"\n", "*", " ", "*", " ", "*", " ", "*", " ", "*">>,
    <<"@", "h", "o", "u", "r", "l", "y", "\n">>,
    <<"\t", "@", "d", "a", "i", "l", "y", " ">> }

\* A tag of the alias table in one of four letter-case patterns: as
\* written, all capitals, capitals at odd positions, capitals at even ones.
CaseVariant(tag, k) ==
  [i \in 1..Len(tag) |->
     IF k = 2 \/ (k = 3 /\ i % 2 = 1) \/ (k = 4 /\ i % 2 = 0)
     THEN ToUpperCh(tag[i]) ELSE tag[i]]

NumCaseVariants == 2

AliasExprs ==
  {CaseVariant(expressions[i].tag, k) :
     i \in 1..Len(expressions), k \in 1..NumCaseVariants}

Exprs ==
  WellFormedExprs \cup UnsatisfiableExprs \cup BadFieldExprs
    \cup BadCountExprs \cup LayoutExprs \cup AliasExprs

\* Reference times: the first NumRefTimes of the list are used.
RefTimeList ==
  << Date(2024, 3, 15, 10, 0, 0, 0, "UTC"),
     Date(2021, 4, 1, 1, 5, 0, 0, "UTC"),
     Date(2021, 4, 1, 1, 7, 30, 500000000, "UTC"),
     Date(2024, 2, 29, 23, 59, 59, 999999999, "UTC"),
     Date(2023, 1, 1, 0, 0, 0, 0, "+0545"),
     Date(2022, 12, 31, 12, 30, 0, 1, "UTC"),
     Date(2020, 6, 10, 0, 0, 59, 0, "UTC") >>

NumRefTimes == 4

RefTimes == {RefTimeList[i] : i \in 1..NumRefTimes}

(***************************************************************************)
(* The program: one Gronx value g, whose checker g.C holds the reference   *)
(* time, and the call in progress on it.                                   *)
(***************************************************************************)
VARIABLES
  checker,           \* the implementation behind g.C
  ref,               \* g.C's reference time (SetRef / GetRef)
  pc,                \* "idle", "segs" (before Segments), "due" (in SegmentsDue),
                     \* "scan" and "ret" (in GetPrev's loop and after it), "done",
                     \* "panic" (the program has panicked in getPrevTime)
  op,                \* the operation in progress or last finished
  expr,              \* its expression text
  t0,                \* its reference time (the argument, or time.Now())
  segs,              \* segs of IsDue / GetPrev
  idx,               \* loop index: a field of segs (due), a place of PosOrder (scan)
  yearsLeftToCheck,  \* GetPrev's year budget
  invoked,           \* CheckDue calls of the call (IsDue) or of the scan (GetPrev)
  nCheck,            \* number of CheckDue calls of the call
  res,               \* what the call returned
  follow,            \* how the caller chose this call's arguments
  prev               \* with a follow-up call, what the call before returned

vars ==
  <<checker, ref, pc, op, expr, t0, segs, idx, yearsLeftToCheck, invoked,
    nCheck, res, follow, prev>>

\* The zero time.Time and the nil *time.Time.
ZeroTime == Date(1, 1, 1, 0, 0, 0, 0, "UTC")
NilTime == Date(0, 0, 0, 0, 0, 0, 0, "nil")

Result(due, time, err, valid) ==
  [due |-> due, time |-> time, err |-> err, valid |-> valid]

NoResult == Result(FALSE, NilTime, NoErr, FALSE)

\* A budget of one year less.
yearsToCheckOneLess == 100 - 1

yearsToCheck == 100

\* The scan order without the minute.
PosOrderNoMinute ==
  <<PosYear, PosMonth, PosDayOfMonth, PosDayOfWeek, PosHour>>

\* The scan order from the finest position to the coarsest.
PosOrderFinestFirst ==
  <<PosMinute, PosHour, PosDayOfWeek, PosDayOfMonth, PosMonth, PosYear>>

PosOrder ==
  <<PosYear, PosMonth, PosDayOfMonth, PosDayOfWeek, PosHour, PosMinute>>

\* Only "*" is skipped.
IsWildcardStarOnly(seg) == seg = <<"*">>

IsWildcard(seg) == seg = <<"*">> \/ seg = <<"?">>

\* What g.C.CheckDue(seg, pos) may return at reference time t.  The
\* SegmentChecker of New() is the matcher above.  Checker is an interface
\* and g.C an exported field: another implementation may return any due
\* value together with an error.
CheckDue(seg, pos, t) ==
  LET r == SegmentCheckDue(seg, pos, t) IN
  IF checker = "SegmentChecker" \/ r.err = NoErr THEN {r}
  ELSE {Verdict(d, r.err) : d \in BOOLEAN}

\* What the operation returns to its caller.
Returned(o, due, time, err) ==
  CASE o = "IsDue" -> Result(due, NilTime, err, FALSE)
    [] o = "IsValid" -> Result(FALSE, NilTime, NoErr, err = NoErr)
    [] o = "GetPrev" -> Result(FALSE, time, err, FALSE)

\* The start of a call without g.C.SetRef(t).
BeginNoSetRef(o, e, t, f, p) ==
  /\ pc' = "segs"
  /\ op' = o
  /\ expr' = e
  /\ t0' = t
  /\ segs' = <<>>
  /\ idx' = 1
  /\ yearsLeftToCheck' = 0
  /\ invoked' = <<>>
  /\ nCheck' = 0
  /\ res' = NoResult
  /\ follow' = f
  /\ prev' = p
  /\ UNCHANGED <<checker, ref>>

\* The common start of IsDue and GetPrev: g.C.SetRef(t).
Begin(o, e, t, f, p) ==
  /\ ref' = t
  /\ pc' = "segs"
  /\ op' = o
  /\ expr' = e
  /\ t0' = t
  /\ segs' = <<>>
  /\ idx' = 1
  /\ yearsLeftToCheck' = 0
  /\ invoked' = <<>>
  /\ nCheck' = 0
  /\ res' = NoResult
  /\ follow' = f
  /\ prev' = p
  /\ UNCHANGED checker

\* segs, err := Segments(expr): the error is returned; otherwise IsDue
\* goes on to SegmentsDue, and GetPrev sets its year budget and enters
\* its loop.
SegmentsStep ==
  /\ pc = "segs"
  /\ LET sg == Segments(expr) IN
     /\ segs' = sg.segs
     /\ IF sg.err # NoErr
        THEN /\ pc' = "done"
             /\ res' = Returned(op, FALSE, NilTime, sg.err)
             /\ UNCHANGED yearsLeftToCheck
        ELSE /\ pc' = (IF op = "GetPrev" THEN "scan" ELSE "due")
             /\ yearsLeftToCheck' = (IF op = "GetPrev" THEN yearsToCheck ELSE 0)
             /\ UNCHANGED res
  /\ UNCHANGED <<checker, ref, op, expr, t0, idx, invoked, nCheck, follow, prev>>

Idle == pc \in {"idle", "done"}

IsDue(e, t) == Idle /\ Begin("IsDue", e, t, "none", NoResult)

\* IsValid is IsDue at time.Now().
IsValid(e, now) == Idle /\ Begin("IsValid", e, now, "none", NoResult)

GetPrev(e, t) == Idle /\ Begin("GetPrev", e, t, "none", NoResult)

\* The caller asks whether the expression is due at the time GetPrev just
\* returned for it.
IsDueOfPrev ==
  /\ pc = "done" /\ op = "GetPrev" /\ res.err = NoErr
  /\ Begin("IsDue", expr, res.time, "round-trip", res)

\* After a call on a tag of the alias table, the caller makes the same call
\* on the tag's canonical expression.
CallCanonical ==
  /\ pc = "done" /\ op \in {"IsDue", "GetPrev"} /\ follow = "none"
  /\ HasExpression(ToLower(expr))
  /\ Begin(op, ExpressionOf(ToLower(expr)), t0, "canonical", res)

\* The caller validates the same expression again, at another instant.
IsValidAgain(now) ==
  /\ pc = "done" /\ op = "IsValid" /\ follow = "none"
  /\ Begin("IsValid", expr, now, "again", res)

\* The position "range segments" gives the field at place i of segs.
FieldPosOneBased(i) == i

FieldPos(i) == i - 1

\* One iteration of SegmentsDue's loop over the fields.
SegmentsDueStep ==
  /\ pc = "due"
  /\ LET pos == FieldPos(idx)
         seg == segs[idx]
         last == idx = Len(segs)
     IN  IF IsWildcard(seg)
         THEN /\ pc' = IF last THEN "done" ELSE "due"
              /\ idx' = IF last THEN idx ELSE idx + 1
              /\ res' = IF last THEN Returned(op, TRUE, NilTime, NoErr) ELSE res
              /\ UNCHANGED <<invoked, nCheck>>
         ELSE \E r \in CheckDue(seg, pos, ref) :
                /\ invoked' = Append(invoked, [pos |-> pos, due |-> r.due, err |-> r.err])
                /\ nCheck' = nCheck + 1
                /\ IF ~r.due
                   THEN /\ pc' = "done"
                        /\ res' = Returned(op, r.due, NilTime, r.err)
                        /\ idx' = idx
                   ELSE /\ pc' = IF last THEN "done" ELSE "due"
                        /\ idx' = IF last THEN idx ELSE idx + 1
                        /\ res' = IF last THEN Returned(op, TRUE, NilTime, NoErr)
                                  ELSE res
  /\ UNCHANGED <<checker, ref, op, expr, t0, segs, yearsLeftToCheck, follow, prev>>

\* One iteration of GetPrev's inner loop, over the positions of PosOrder.
\* "continue L" tests the budget again; the end of the inner loop breaks L.
GetPrevStep ==
  /\ pc = "scan"
  /\ LET pos == PosOrder[idx]
         last == idx = Len(PosOrder)
         next == /\ pc' = IF last THEN "ret" ELSE "scan"
                 /\ idx' = IF last THEN idx ELSE idx + 1
                 /\ UNCHANGED <<ref, yearsLeftToCheck, res>>
     IN  IF pos >= Len(segs) \/ IsWildcard(segs[pos + 1])
         THEN next /\ UNCHANGED <<invoked, nCheck>>
         ELSE \E r \in CheckDue(segs[pos + 1], pos, ref) :
                /\ nCheck' = nCheck + 1
                /\ IF r.err # NoErr
                   THEN /\ pc' = "done"
                        /\ res' = Returned(op, FALSE, NilTime, r.err)
                        /\ invoked' = Append(invoked, [pos |-> pos, due |-> r.due, err |-> r.err])
                        /\ UNCHANGED <<ref, yearsLeftToCheck, idx>>
                   ELSE IF ~r.due
                   THEN IF getPrevTimePanics(pos)
                        THEN /\ pc' = "panic"
                             /\ UNCHANGED <<ref, yearsLeftToCheck, idx, invoked, res>>
                        ELSE
                        LET p == getPrevTime(ref, pos)
                            left == IF p.yearChanged THEN yearsLeftToCheck - 1
                                    ELSE yearsLeftToCheck
                        IN  /\ ref' = p.time
                            /\ yearsLeftToCheck' = left
                            /\ pc' = IF left > 0 THEN "scan" ELSE "ret"
                            /\ idx' = 1
                            /\ invoked' = <<>>
                            /\ res' = res
                   ELSE /\ next
                        /\ invoked' = Append(invoked, [pos |-> pos, due |-> r.due, err |-> r.err])
  /\ UNCHANGED <<checker, op, expr, t0, segs, follow, prev>>

\* GetPrev's return with the seconds and nanoseconds of the time reached.
GetPrevReturnUntruncated ==
  /\ pc = "ret"
  /\ pc' = "done"
  /\ res' = IF yearsLeftToCheck = 0
            THEN Returned(op, FALSE, NilTime, ErrNotFound)
            ELSE Returned(op, FALSE, ref, NoErr)
  /\ UNCHANGED <<checker, ref, op, expr, t0, segs, idx, yearsLeftToCheck,
                 invoked, nCheck, follow, prev>>

\* GetPrev's return with the seconds of the time reached.
GetPrevReturnWithSeconds ==
  /\ pc = "ret"
  /\ pc' = "done"
  /\ res' = IF yearsLeftToCheck = 0
            THEN Returned(op, FALSE, NilTime, ErrNotFound)
            ELSE Returned(op, FALSE,
                          Date(ref.year, ref.month, ref.day, ref.hour, ref.min,
                               ref.sec, 0, ref.loc), NoErr)
  /\ UNCHANGED <<checker, ref, op, expr, t0, segs, idx, yearsLeftToCheck,
                 invoked, nCheck, follow, prev>>

\* GetPrev's return without the test of the year budget.
GetPrevReturnUnchecked ==
  /\ pc = "ret"
  /\ pc' = "done"
  /\ res' = Returned(op, FALSE,
                     Date(ref.year, ref.month, ref.day, ref.hour, ref.min,
                          0, 0, ref.loc), NoErr)
  /\ UNCHANGED <<checker, ref, op, expr, t0, segs, idx, yearsLeftToCheck,
                 invoked, nCheck, follow, prev>>

\* After the loop: the not-found error, or the reference time reached
\* without its seconds and nanoseconds.
GetPrevReturn ==
  /\ pc = "ret"
  /\ pc' = "done"
  /\ res' = IF yearsLeftToCheck = 0
            THEN Returned(op, FALSE, NilTime, ErrNotFound)
            ELSE Returned(op, FALSE,
                          Date(ref.year, ref.month, ref.day, ref.hour, ref.min,
                               0, 0, ref.loc), NoErr)
  /\ UNCHANGED <<checker, ref, op, expr, t0, segs, idx, yearsLeftToCheck,
                 invoked, nCheck, follow, prev>>

InitWith(checkers) ==
  /\ checker \in checkers
  /\ ref = ZeroTime
  /\ pc = "idle"
  /\ op = "none"
  /\ expr = <<>>
  /\ t0 = ZeroTime
  /\ segs = <<>>
  /\ idx = 1
  /\ yearsLeftToCheck = 0
  /\ invoked = <<>>
  /\ nCheck = 0
  /\ res = NoResult
  /\ follow = "none"
  /\ prev = NoResult

\* gronx.New(): the checker is a SegmentChecker.
Init == InitWith({"SegmentChecker"})

Next ==
  \/ \E e \in Exprs, t \in RefTimes : IsDue(e, t)
  \/ \E e \in Exprs, now \in RefTimes : IsValid(e, now)
  \/ \E e \in Exprs, t \in RefTimes : GetPrev(e, t)
  \/ IsDueOfPrev
  \/ CallCanonical
  \/ \E now \in RefTimes : IsValidAgain(now)
  \/ SegmentsStep
  \/ SegmentsDueStep
  \/ GetPrevStep
  \/ GetPrevReturn

Spec == Init /\ [][Next]_vars

\* A Gronx value whose checker may be any implementation of Checker.
InitAnyChecker == InitWith({"SegmentChecker", "custom"})

SpecAnyChecker == InitAnyChecker /\ [][Next]_vars

(***************************************************************************)
(* Reference notions the properties are stated with.                       *)
(***************************************************************************)
\* The expression with fields sg is due at time t: every field other than
\* "*" and "?" matches t at its own position.
DueAt(sg, t) ==
  \A i \in 1..Len(sg) :
    sg[i] \in {<<"*">>, <<"?">>} \/ SegmentCheckDue(sg[i], i - 1, t).due

\* Every sub-expression of every field is well-formed and within its domain.
FieldsWellFormed(sg) ==
  \A i \in 1..Len(sg) :
    LET offsets == Split(sg[i], ",") IN
    \A k \in 1..Len(offsets) : isOffsetDue(offsets[k], i - 1, ZeroTime).err = NoErr

\* Minutes are numbered from 0001-01-01T00:00.
MinuteNumber(t) ==
  (DayNumber(t.year, t.month, t.day) - 1) * 1440 + t.hour * 60 + t.min

Smaller(a, b) == IF a < b THEN a ELSE b

\* The day with number d (DayNumber), at 00:00 in location loc.
DateOfDay(d, loc) ==
  LET d0   == d - 1
      r400 == d0 % 146097
      c    == Smaller(r400 \div 36524, 3)
      r100 == r400 - c * 36524
      r4   == r100 % 1461
      a    == Smaller(r4 \div 365, 3)
      doy  == r4 - a * 365
      y    == 400 * (d0 \div 146097) + 100 * c + 4 * (r100 \div 1461) + a + 1
      m    == CHOOSE k \in 1..12 :
                DaysBeforeMonth(y, k) <= doy /\ doy < DaysBeforeMonth(y, k) + DaysIn(y, k)
  IN  Date(y, m, doy - DaysBeforeMonth(y, m) + 1, 0, 0, 0, 0, loc)

\* The minute with number n, as a time of location loc.
TimeOfMinute(n, loc) ==
  [DateOfDay((n \div 1440) + 1, loc) EXCEPT !.hour = (n % 1440) \div 60, !.min = n % 60]

\* The fields of the date (day of month, month, day of week, year) other
\* than "*" and "?" match the day of t.  Their verdicts are the same at
\* every minute of a day.
DateFieldsDueAt(sg, t) ==
  \A i \in (PosDayOfMonth + 1)..Len(sg) :
    sg[i] \in {<<"*">>, <<"?">>} \/ SegmentCheckDue(sg[i], i - 1, t).due

\* The field of sg at position pos is absent, "*" or "?", or matches t.
FieldDueAt(sg, pos, t) ==
  \/ pos >= Len(sg)
  \/ sg[pos + 1] \in {<<"*">>, <<"?">>}
  \/ SegmentCheckDue(sg[pos + 1], pos, t).due

\* The expression with fields sg is due at no minute after time p up to
\* time t: of the years from p's to t's those whose number matches the
\* year field are looked at, of their months those that match the month
\* field, of their days those from p's to t's whose date fields match, and
\* of these every minute.
NotDueBetween(sg, p, t) ==
  LET lo == MinuteNumber(p)
      hi == MinuteNumber(t)
      dlo == DayNumber(p.year, p.month, p.day)
      dhi == DayNumber(t.year, t.month, t.day)
  IN  \A y \in p.year..t.year :
        FieldDueAt(sg, PosYear, Date(y, 1, 1, 0, 0, 0, 0, t.loc)) =>
          \A mo \in 1..12 :
            FieldDueAt(sg, PosMonth, Date(y, mo, 1, 0, 0, 0, 0, t.loc)) =>
              \A dd \in 1..DaysIn(y, mo) :
                LET day == Date(y, mo, dd, 0, 0, 0, 0, t.loc)
                    d == DayNumber(y, mo, dd)
                IN  (dlo <= d /\ d <= dhi /\ DateFieldsDueAt(sg, day)) =>
                      \A hm \in 0..1439 :
                        (lo < (d - 1) * 1440 + hm /\ (d - 1) * 1440 + hm <= hi)
                          => ~DueAt(sg, [day EXCEPT !.hour = hm \div 60, !.min = hm % 60])

\* t without its seconds and nanoseconds.
MinuteOf(t) == [t EXCEPT !.sec = 0, !.nsec = 0]

(***************************************************************************)
(* Properties.                                                             *)
(***************************************************************************)
\* C1: when GetPrev returned a time p without error, IsDue of the same
\* expression at p returns (true, nil).
C1_PrevIsDue ==
  (pc = "done" /\ follow = "round-trip")
    => res = Result(TRUE, NilTime, NoErr, FALSE)

\* C1's case: IsDue has answered for a time GetPrev found by regressing,
\* after asking the matcher about at least two fields.
C1_Witness ==
  /\ pc = "done" /\ follow = "round-trip"
  /\ prev.time = t0
  /\ nCheck >= 2
  /\ res.due

\* C2: a time p that GetPrev returns is at or before the reference time t,
\* is a minute at which the expression is due, and no minute after p up to
\* t is one: p is the latest due minute at or before t.  If the expression
\* is due at t, p is t's minute; and GetPrev("0 0 1 1 *",
\* 2024-03-15T10:00:00Z) is 2024-01-01T00:00:00Z.
C2_PrevIsLatest ==
  (pc = "done" /\ op = "GetPrev" /\ res.err = NoErr)
    => /\ NotAfter(res.time, t0)
       /\ res.time = MinuteOf(res.time)
       /\ DueAt(segs, res.time)
       /\ NotDueBetween(segs, res.time, t0)
       /\ DueAt(segs, t0) => res.time = MinuteOf(t0)
       /\ (/\ expr = <<"0", " ", "0", " ", "1", " ", "1", " ", "*">>
           /\ t0 = Date(2024, 3, 15, 10, 0, 0, 0, "UTC"))
            => res.time = Date(2024, 1, 1, 0, 0, 0, 0, "UTC")

\* C2's case: GetPrev returned a minute of an earlier month than the
\* reference time's.
C2_Witness ==
  /\ pc = "done" /\ op = "GetPrev" /\ res.err = NoErr
  /\ res.time.year = t0.year /\ res.time.month < t0.month
  /\ segs[PosDayOfMonth + 1] # <<"*">>

\* No day of any year matches both the day-of-month and the month field
\* (neither of which uses L or W): no calendar instant satisfies sg.
NoCalendarDay(sg) ==
  /\ ~Contains(sg[PosDayOfMonth + 1], {"L", "W"})
  /\ \A mo \in 1..12 : \A d \in 1..DaysIn(2024, mo) :
       ~DueAt(<<<<"*">>, <<"*">>, sg[PosDayOfMonth + 1], sg[PosMonth + 1], <<"*">>>>,
              Date(2024, mo, d, 0, 0, 0, 0, "UTC"))

\* C3: for an expression of well-formed fields that no calendar instant
\* satisfies, GetPrev returns a nil time and the not-found error, with the
\* year budget of 100 used up.
C3_UnsatisfiableNotFound ==
  (/\ pc = "done" /\ op = "GetPrev"
   /\ Len(segs) \in {5, 6} /\ FieldsWellFormed(segs) /\ NoCalendarDay(segs))
    => /\ res = Result(FALSE, NilTime, ErrNotFound, FALSE)
       /\ yearsLeftToCheck = 0
       /\ t0.year - ref.year = 100

\* C3's case: GetPrev has returned for day 30 of February.
C3_Witness ==
  /\ pc = "done" /\ op = "GetPrev"
  /\ segs = <<<<"*">>, <<"*">>, <<"3", "0">>, <<"2">>, <<"*">>>>
  /\ FieldsWellFormed(segs) /\ NoCalendarDay(segs)
  /\ res.err = ErrNotFound

\* C4: GetPrev terminates.  Every iteration of its search loop either
\* leaves the loop (with every scanned field matching, with the year budget
\* at zero, or with a matcher error), or goes on to the next position at
\* the same reference time, or starts over at a strictly earlier reference
\* time that is less than the year budget of years before the time given.
\* The positions are 6 and the instants of those years finitely many, so
\* no search runs for ever; and after the loop GetPrev returns.
C4_GetPrevTerminates ==
  [][/\ pc = "scan" =>
          \/ pc' = "done" /\ res'.err \notin {NoErr, ErrNotFound}
          \/ pc' = "ret" /\ (yearsLeftToCheck' = 0 \/ DueAt(segs, ref'))
          \/ /\ pc' = "scan" /\ ref' = ref
             /\ idx' = idx + 1 /\ idx' <= 6
          \/ /\ pc' = "scan" /\ idx' = 1
             /\ Before(ref', ref)
             /\ t0.year - ref'.year < 100
     /\ pc = "ret" => pc' = "done"]_vars

\* C4's case: GetPrev has returned after regressing into an earlier year.
C4_Witness ==
  /\ pc = "done" /\ op = "GetPrev"
  /\ res.err = NoErr
  /\ ref.year < t0.year

\* C5: with 5 or 6 fields and no matcher error, IsDue returns true exactly
\* when every field other than "*" and "?" matches the reference time at
\* its own position.
C5_DueIffEveryFieldMatches ==
  (pc = "done" /\ op = "IsDue" /\ Len(segs) \in {5, 6} /\ res.err = NoErr)
    => (res.due <=>
          \A i \in 1..Len(segs) :
            \/ segs[i] \in {<<"*">>, <<"?">>}
            \/ SegmentCheckDue(segs[i], i - 1, t0).due)

\* C5's case: IsDue returned false although its first field matches.
C5_Witness ==
  /\ pc = "done" /\ op = "IsDue" /\ res.err = NoErr
  /\ ~res.due
  /\ Len(invoked) >= 2 /\ invoked[1].due

\* C6: IsDue asks the matcher about fields in position order, never about
\* a "*" or "?" field, and about no field after the first one that does
\* not match: it returns that field's verdict.
C6_BailsEarly ==
  (op \in {"IsDue", "IsValid"} /\ pc \in {"due", "done"})
    => /\ nCheck = Len(invoked)
       /\ \A k \in 1..Len(invoked) :
            /\ segs[invoked[k].pos + 1] \notin {<<"*">>, <<"?">>}
            /\ k < Len(invoked) =>
                 invoked[k].due /\ invoked[k].pos < invoked[k + 1].pos
            /\ ~invoked[k].due =>
                 /\ pc = "done"
                 /\ op = "IsDue" => res = Result(FALSE, NilTime, invoked[k].err, FALSE)
       \* no field is passed over: those before the loop's position were
       \* asked about, unless "*" or "?"
       /\ \A i \in 1..Len(segs) :
            (i < idx /\ segs[i] \notin {<<"*">>, <<"?">>})
              => \E k \in 1..Len(invoked) : invoked[k].pos = i - 1

\* C6's case: IsDue returned (false, nil) at the month, the first field
\* that does not match, with the "?" before it passed over and the fields
\* after it not asked about.
C6_Witness ==
  /\ pc = "done" /\ op = "IsDue"
  /\ res = Result(FALSE, NilTime, NoErr, FALSE)
  /\ Len(segs) = 6 /\ segs[PosDayOfMonth + 1] = <<"?">>
  /\ Len(invoked) = 3
  /\ invoked[1].pos = PosMinute /\ invoked[2].pos = PosHour
  /\ invoked[3].pos = PosMonth /\ ~invoked[3].due

\* C7: when a matcher call made during IsDue reports an error, IsDue
\* returns (false, that error), whatever due value came with the error.
C7_MatcherErrorReturned ==
  (pc = "done" /\ op = "IsDue")
    => \A k \in 1..Len(invoked) :
         invoked[k].err # NoErr
           => res = Result(FALSE, NilTime, invoked[k].err, FALSE)

\* Some sub-expression of some field is malformed or out of its domain.
HasBadField(sg) == Len(sg) \in {5, 6} /\ ~FieldsWellFormed(sg)

\* C8: IsValid's verdict for an expression is the same at every current
\* instant, and an expression with a malformed or out-of-domain field is
\* invalid whichever of its other fields match the current time.
C8_IsValidSameAtEveryInstant ==
  (pc = "done" /\ op = "IsValid")
    => /\ follow = "again" => res.valid = prev.valid
       /\ HasBadField(segs) => ~res.valid

\* The runs of non-whitespace characters of s, in order.
Words(s) ==
  LET starts == {i \in 1..Len(s) :
                   s[i] \notin SpaceChars /\ (i = 1 \/ s[i - 1] \in SpaceChars)}
      ends   == {i \in 1..Len(s) :
                   s[i] \notin SpaceChars /\ (i = Len(s) \/ s[i + 1] \in SpaceChars)}
      kth(S, k) == CHOOSE i \in S : Cardinality({j \in S : j < i}) = k - 1
  IN  [k \in 1..Cardinality(starts) |-> SubSeq(s, kth(starts, k), kth(ends, k))]

\* The text whose fields Segments returns: the tag's expression for a tag
\* between spaces and tabs, in capitals, with month and day names replaced.
FieldText(e) ==
  LET trimmed == Trim(e, {" ", "\t"}) IN
  literalsReplace(ToUpper(IF HasExpression(ToLower(trimmed))
                          THEN ExpressionOf(ToLower(trimmed))
                          ELSE trimmed))

NonEmpty(field) == field # <<>>

\* C9: Segments fails exactly when the normalized expression has fewer
\* than 5 or more than 6 fields, and IsDue and GetPrev then return its
\* error without a single matcher call; otherwise the fields are 5 or 6,
\* those normalize gives, in the order of the text.  Stated of the call
\* when Segments has returned and when the call has.
C9_SegmentsContract ==
  (/\ op \in {"IsDue", "GetPrev"}
   /\ \/ pc \in {"due", "scan"} /\ idx = 1 /\ nCheck = 0
      \/ pc = "done")
    => LET n == Len(normalize(expr)) IN
       IF n < 5 \/ n > 6
       THEN /\ pc = "done"
            /\ res = Result(FALSE, NilTime, ErrSegments, FALSE)
            /\ segs = <<>>
            /\ nCheck = 0 /\ invoked = <<>>
       ELSE /\ res.err # ErrSegments
            /\ Len(segs) \in {5, 6}
            /\ segs = normalize(expr)
            /\ SelectSeq(segs, NonEmpty) = Words(FieldText(expr))

\* C9's case: GetPrev returned the error of Segments for 7 fields.
C9_Witness ==
  /\ pc = "done" /\ op = "GetPrev"
  /\ Len(normalize(expr)) = 7
  /\ res.err = ErrSegments /\ nCheck = 0

\* C10: a call on a tag of the alias table, in any letter case, returns
\* exactly what the same call on the tag's expression returns.
C10_AliasAsCanonical ==
  (pc = "done" /\ follow = "canonical") => res = prev

\* C10's case: GetPrev of a tag of "0 * * * *" and then of that expression
\* have both returned, with a time before the reference time's minute.
C10_Witness ==
  /\ pc = "done" /\ follow = "canonical" /\ op = "GetPrev"
  /\ res = prev
  /\ res.err = NoErr /\ res.time # MinuteOf(t0)
  /\ expr = <<"0", " ", "*", " ", "*", " ", "*", " ", "*">>

RECURSIVE JoinFrom(_, _)
\* The words ws from the k-th on, with one space between two of them.
JoinFrom(ws, k) ==
  IF k > Len(ws) THEN <<>>
  ELSE IF k = Len(ws) THEN ws[k]
  ELSE ws[k] \o <<" ">> \o JoinFrom(ws, k + 1)

\* The expression e without surrounding whitespace and with every run of
\* whitespace replaced by one space.
SingleSpaced(e) == JoinFrom(Words(e), 1)

\* C11: Segments gives an expression in any whitespace layout (surrounding
\* spaces, tabs, newlines; runs of whitespace as separators) the fields and
\* the error it gives the trimmed, single-spaced expression, and no field
\* is empty.  Stated of the call when Segments has returned.
C11_LayoutInsensitive ==
  LET same == Segments(SingleSpaced(expr)) IN
  /\ (op # "none" /\ pc \in {"due", "scan"} /\ idx = 1 /\ nCheck = 0)
       => /\ same.err = NoErr
          /\ segs = same.segs
          /\ \A i \in 1..Len(segs) : segs[i] # <<>>
  /\ (op \in {"IsDue", "GetPrev"} /\ pc = "done" /\ res.err = ErrSegments)
       => same.err = ErrSegments

\* C12: GetPrev of an expression with a malformed or out-of-domain field
\* returns that field's error before its search begins: the reference time
\* is still the one given, and the error is never the not-found error.
C12_BadFieldRejectedFirst ==
  (pc = "done" /\ op = "GetPrev" /\ HasBadField(segs))
    => /\ res.err \in {ErrMalformed, ErrOutOfDomain}
       /\ res.time = NilTime
       /\ ref = t0

\* A second evaluation (IsDue or GetPrev) starts on the same Gronx value
\* while the first is running: its g.C.SetRef(t) writes the one reference
\* time the value's checker holds.  Of all interleavings, those in which
\* the first evaluation is an IsDue (or the IsDue of IsValid) and the write
\* lands before its first CheckDue.
ConcurrentSetRef(t) ==
  /\ op \in {"IsDue", "IsValid"}
  /\ pc \in {"segs", "due"}
  /\ nCheck = 0
  /\ ref # t
  /\ ref' = t
  /\ UNCHANGED <<checker, pc, op, expr, t0, segs, idx, yearsLeftToCheck,
                 invoked, nCheck, res, follow, prev>>

NextConcurrent ==
  \/ Next
  \/ \E t \in RefTimes : ConcurrentSetRef(t)

\* One Gronx value used by two evaluations at a time.
SpecConcurrent == Init /\ [][NextConcurrent]_vars

\* C13: with two evaluations running concurrently on one Gronx value, an
\* evaluation reads only the reference time it wrote itself (before its
\* first regression, the time it was given), and returns what it returns
\* when run alone: IsDue whether its expression is due at its own time,
\* GetPrev a time that is not after its own.
C13_RefOwnedByEvaluation ==
  /\ (pc \in {"segs", "due", "scan"} /\ nCheck = 0) => ref = t0
  /\ (pc = "done" /\ op = "IsDue" /\ res.err = NoErr /\ Len(segs) \in {5, 6})
       => res.due = DueAt(segs, t0)
  /\ (pc = "done" /\ op = "GetPrev" /\ res.err = NoErr)
       => NotAfter(res.time, t0)

\* What IsDue(e, t) returns on a Gronx value that no call has used before:
\* a function of e and t alone.
RECURSIVE SegmentsDueFrom(_, _, _)
SegmentsDueFrom(sg, i, t) ==
  IF i > Len(sg) THEN Verdict(TRUE, NoErr)
  ELSE IF IsWildcard(sg[i]) THEN SegmentsDueFrom(sg, i + 1, t)
  ELSE LET r == SegmentCheckDue(sg[i], i - 1, t) IN
       IF ~r.due THEN r ELSE SegmentsDueFrom(sg, i + 1, t)

FreshIsDue(e, t) ==
  LET sg == Segments(e) IN
  IF sg.err # NoErr THEN Verdict(FALSE, sg.err)
  ELSE SegmentsDueFrom(sg.segs, 1, t)

\* C14: no state persists between calls.  Whatever the calls before left
\* behind (a regressed reference time, fields, a budget, an error), a call
\* starts from its own arguments alone: the reference time is the call's
\* time and every variable it reads is reset; an IsDue or IsValid then
\* returns what the same call returns on a fresh Gronx value, and a GetPrev
\* that succeeds returns a time at or before its own argument and less than
\* 100 calendar years before it.
C14_NoStateBetweenCalls ==
  [][ /\ (pc \in {"idle", "done"} /\ pc' = "segs")
           => /\ ref' = t0'
              /\ segs' = <<>> /\ idx' = 1 /\ yearsLeftToCheck' = 0
              /\ invoked' = <<>> /\ nCheck' = 0 /\ res' = NoResult
      /\ (pc # "done" /\ pc' = "done" /\ op' \in {"IsDue", "IsValid"})
           => LET fresh == FreshIsDue(expr', t0') IN
              res' = Returned(op', fresh.due, NilTime, fresh.err)
      /\ (pc # "done" /\ pc' = "done" /\ op' = "GetPrev" /\ res'.err = NoErr)
           => /\ NotAfter(res'.time, t0')
              /\ t0'.year - res'.time.year < yearsToCheck
    ]_vars

\* An IsDue has returned "due" for the time a GetPrev before it returned,
\* a time that GetPrev reached by regressing the reference time.
C14_Witness ==
  /\ pc = "done" /\ op = "IsDue" /\ follow = "round-trip"
  /\ t0 = prev.time /\ t0 \notin RefTimes
  /\ res.due

\* The order of the scan as the specification words it, coarsest first.
CoarsestFirst ==
  <<PosYear, PosMonth, PosDayOfMonth, PosDayOfWeek, PosHour, PosMinute>>

\* Position pos is not examined for the fields sg: sg has no such field, or
\* the field is a wildcard.
Skipped(sg, pos) == pos >= Len(sg) \/ IsWildcard(sg[pos + 1])

\* C15: every iteration of the GetPrev search scans the positions in the
\* order Year, Month, DayOfMonth, DayOfWeek, Hour, Minute.  A step of the
\* scan looks at the position at the scan's place: it skips it when the
\* field is a wildcard or absent (Year of 5 fields), and otherwise asks the
\* matcher about exactly that position.  A regression is applied at that
\* position, only when every coarser position is skipped or matches the
\* reference time being regressed, and the scan then restarts from Year.
\* Without regression or error the scan moves to the next position.
C15_CoarsestFirst ==
  [][ (pc = "scan")
        => LET pos == CoarsestFirst[idx] IN
           /\ idx \in 1..Len(CoarsestFirst)
           /\ (nCheck' = nCheck) <=> Skipped(segs, pos)
           /\ (nCheck' # nCheck /\ invoked' # <<>>)
                => /\ invoked' = Append(invoked, invoked'[Len(invoked')])
                   /\ invoked'[Len(invoked')].pos = pos
           /\ (ref' # ref)
                => /\ ~Skipped(segs, pos)
                   /\ ref' = getPrevTime(ref, pos).time
                   /\ \A j \in 1..(idx - 1) :
                        \/ Skipped(segs, CoarsestFirst[j])
                        \/ SegmentCheckDue(segs[CoarsestFirst[j] + 1],
                                           CoarsestFirst[j], ref).due
                   /\ ~SegmentCheckDue(segs[pos + 1], pos, ref).due
                   /\ invoked' = <<>>
                   /\ pc' = "scan" => idx' = 1
           /\ (ref' = ref /\ pc' = "scan") => idx' = idx + 1
           /\ (ref' = ref /\ pc' = "ret") => idx = Len(CoarsestFirst)
    ]_vars

\* The search has just regressed by less than a day, at Hour or Minute, for
\* an expression whose Year and Month fields are not wildcards, and is back
\* at Year.
C15_Witness ==
  /\ op = "GetPrev" /\ pc = "scan" /\ idx = 1 /\ invoked = <<>>
  /\ ref # t0 /\ ref.hour # 23
  /\ Len(segs) = 6
  /\ ~IsWildcard(segs[PosYear + 1]) /\ ~IsWildcard(segs[PosMonth + 1])

\* The first instant of the unit of position pos that holds the time t.
UnitStart(t, pos) ==
  CASE pos = PosYear ->
         [t EXCEPT !.month = 1, !.day = 1, !.hour = 0, !.min = 0, !.sec = 0, !.nsec = 0]
    [] pos = PosMonth ->
         [t EXCEPT !.day = 1, !.hour = 0, !.min = 0, !.sec = 0, !.nsec = 0]
    [] pos \in {PosDayOfMonth, PosDayOfWeek} ->
         [t EXCEPT !.hour = 0, !.min = 0, !.sec = 0, !.nsec = 0]
    [] pos = PosHour ->
         [t EXCEPT !.min = 0, !.sec = 0, !.nsec = 0]
    [] pos = PosMinute ->
         [t EXCEPT !.sec = 0, !.nsec = 0]

\* The instant one nanosecond after t.
OneNanosecondLater(t) ==
  IF t.nsec + 1 < NanosPerSecond THEN [t EXCEPT !.nsec = t.nsec + 1]
  ELSE IF t.sec < 59 THEN [t EXCEPT !.nsec = 0, !.sec = t.sec + 1]
  ELSE IF t.min < 59 THEN [t EXCEPT !.nsec = 0, !.sec = 0, !.min = t.min + 1]
  ELSE IF t.hour < 23
    THEN [t EXCEPT !.nsec = 0, !.sec = 0, !.min = 0, !.hour = t.hour + 1]
  ELSE IF t.day < DaysIn(t.year, t.month)
    THEN [t EXCEPT !.nsec = 0, !.sec = 0, !.min = 0, !.hour = 0, !.day = t.day + 1]
  ELSE IF t.month < 12
    THEN [t EXCEPT !.nsec = 0, !.sec = 0, !.min = 0, !.hour = 0, !.day = 1,
                   !.month = t.month + 1]
  ELSE [t EXCEPT !.nsec = 0, !.sec = 0, !.min = 0, !.hour = 0, !.day = 1,
                 !.month = 1, !.year = t.year + 1]

\* C16: a regression at position p sets the reference time to exactly one
\* nanosecond before the start of the current unit of p: the current year
\* for Year, month for Month, day for DayOfMonth and DayOfWeek, hour for
\* Hour, minute for Minute.  The reference time therefore strictly
\* decreases with every regression (and never changes otherwise during the
\* search), and every instant skipped lies in the unit whose field did not
\* match: from the start of that unit to the time regressed from.
C16_OneNanosecondBeforeUnit ==
  [][ (op = "GetPrev" /\ pc = "scan")
        => LET pos == CoarsestFirst[idx]
               start == UnitStart(ref, pos)
           IN  \/ ref' = ref
               \/ /\ OneNanosecondLater(ref') = start
                  /\ Before(ref', ref)
                  /\ NotAfter(start, ref)
                  /\ ref'.loc = ref.loc
    ]_vars

\* The search has just regressed over the end of a year: the reference time
\* is the last nanosecond of a year before the year of the call's time.
C16_Witness ==
  /\ op = "GetPrev" /\ pc = "scan" /\ idx = 1 /\ ref # t0
  /\ ref.year < t0.year
  /\ ref.month = 12 /\ ref.day = 31 /\ ref.hour = 23 /\ ref.min = 59
  /\ ref.sec = 59 /\ ref.nsec = NanosPerSecond - 1

\* C17: the year budget of GetPrev starts at 100 and is decremented by
\* exactly one exactly when a regression changes the calendar year of the
\* reference time.  Throughout the search the budget is within 0..100 and
\* equals 100 minus the number of years between the year of the call's
\* time and the year of the current reference time, so no instant more
\* than 100 calendar years before the call's time is examined.
C17_YearBudget ==
  [][ /\ (op = "GetPrev" /\ pc = "segs" /\ pc' = "scan")
           => yearsLeftToCheck' = 100
      /\ (op = "GetPrev" /\ pc = "scan")
           => /\ yearsLeftToCheck' =
                   IF ref'.year # ref.year THEN yearsLeftToCheck - 1
                   ELSE yearsLeftToCheck
              /\ ref'.year \in {ref.year, ref.year - 1}
      /\ (op' = "GetPrev" /\ pc' \in {"scan", "ret"})
           => /\ yearsLeftToCheck' \in 0..100
              /\ yearsLeftToCheck' = 100 - (t0'.year - ref'.year)
              /\ t0'.year - ref'.year <= 100
      /\ (op = "GetPrev" /\ pc = "scan" /\ nCheck' # nCheck)
           => /\ yearsLeftToCheck > 0
              /\ t0.year - ref.year < 100
    ]_vars

\* The search has crossed a year boundary and goes on with a budget that
\* is one less than 100.
C17_Witness ==
  /\ op = "GetPrev" /\ pc = "scan" /\ idx = 1 /\ invoked = <<>>
  /\ ref.year = t0.year - 1
  /\ yearsLeftToCheck = 100 - 1

\* C18: when a full scan of the positions finds none that requires a
\* regression, GetPrev returns the current reference time with its second
\* and nanosecond set to zero and its year, month, day, hour, minute and
\* location unchanged.  Every successful result is such a time: it is
\* minute-aligned, and the scan that ended the search asked the matcher
\* about every field that is not skipped and found each of them due.
C18_ReturnsMinuteOfRef ==
  [][ /\ (op = "GetPrev" /\ pc = "scan" /\ pc' = "ret" /\ ref' = ref)
           => /\ yearsLeftToCheck' > 0
              /\ \A p \in 0..5 :
                   \/ Skipped(segs, p)
                   \/ \E i \in 1..Len(invoked') :
                        /\ invoked'[i].pos = p
                        /\ invoked'[i].due /\ invoked'[i].err = NoErr
      /\ (op = "GetPrev" /\ pc = "ret" /\ yearsLeftToCheck > 0)
           => /\ pc' = "done" /\ ref' = ref
              /\ res'.err = NoErr /\ ~res'.due /\ ~res'.valid
              /\ res'.time = [ref EXCEPT !.sec = 0, !.nsec = 0]
      /\ (op' = "GetPrev" /\ pc' = "done" /\ res'.err = NoErr)
           => /\ pc = "ret" /\ yearsLeftToCheck > 0
              /\ res'.time.sec = 0 /\ res'.time.nsec = 0
              /\ res'.time.loc = t0'.loc
    ]_vars

\* GetPrev has returned a time whose seconds and nanoseconds it had to
\* cut: the reference time the search ended on is not minute-aligned.
C18_Witness ==
  /\ op = "GetPrev" /\ pc = "done" /\ res.err = NoErr
  /\ ref.sec # 0 /\ ref.nsec # 0
  /\ res.time = [ref EXCEPT !.sec = 0, !.nsec = 0]

\* C19: the panic of getPrevTime on an unknown segment position cannot be
\* reached through the public operations.  The program never panics, and
\* whenever GetPrev calls getPrevTime (the matcher has found a field not
\* due, without error) the position it passes is one of Minute, Hour,
\* DayOfMonth, Month, DayOfWeek, Year and is below the number of fields of
\* the expression.
C19_PanicUnreachable ==
  [][ /\ pc' # "panic"
      /\ (op = "GetPrev" /\ pc = "scan" /\ nCheck' # nCheck
            /\ pc' # "done" /\ invoked' = <<>>)
           => LET pos == PosOrder[idx] IN
              /\ pos \in {PosMinute, PosHour, PosDayOfMonth, PosMonth,
                          PosDayOfWeek, PosYear}
              /\ pos < Len(segs)
              /\ Len(segs) \in {5, 6}
              /\ ref' # ref
    ]_vars

\* GetPrev has called getPrevTime for an expression of 5 fields, whose
\* Year position is beyond the fields, and goes on with the time it got.
C19_Witness ==
  /\ op = "GetPrev" /\ pc = "scan" /\ idx = 1 /\ invoked = <<>>
  /\ nCheck > 0 /\ ref # t0
  /\ Len(segs) = 5

\* The last instant of the calendar year 100 years before the year of t.
Horizon(t) == Date(t.year - 100, 12, 31, 23, 59, 59, NanosPerSecond - 1, t.loc)

\* C20: for an expression of 5 or 6 well-formed fields, GetPrev(e, t)
\* returns the not-found error if and only if e is due at no minute at or
\* before t of the calendar years year(t)-99 .. year(t).  With a due minute
\* in those years it returns one of them, without error.  Otherwise the
\* 100th regression that changes the year brings the budget to zero at the
\* last instant of year(t)-100, and the error is returned without another
\* scan: the matcher is not asked about that instant, even when every field
\* is due at it.
C20_SearchHorizon ==
  (/\ pc = "done" /\ op = "GetPrev"
   /\ Len(segs) \in {5, 6} /\ FieldsWellFormed(segs))
    => /\ res.err \in {NoErr, ErrNotFound}
       /\ res.err = NoErr
            => /\ DueAt(segs, res.time)
               /\ res.time = MinuteOf(res.time)
               /\ NotAfter(res.time, t0)
               /\ res.time.year \in (t0.year - 99)..t0.year
       /\ res.err = ErrNotFound
            => /\ NotDueBetween(segs, Horizon(t0), t0)
               /\ res.time = NilTime
               /\ yearsLeftToCheck = 0
               /\ ref = Horizon(t0)
               /\ invoked = <<>>

\* GetPrev has returned the not-found error although the expression is due
\* at the minute the search had just reached, the last minute of the year
\* 100 years before the year of the call's time.
C20_Witness ==
  /\ pc = "done" /\ op = "GetPrev" /\ res.err = ErrNotFound
  /\ Len(segs) = 6 /\ FieldsWellFormed(segs)
  /\ ref = Horizon(t0)
  /\ DueAt(segs, ref)

=============================================================================
